---- MODULE Spec2Model ----
(***************************************************************************)
(* Discrete-event logistics simulator: the event queue, the per-event      *)
(* handlers, the dispatcher and the delay model of                         *)
(* src/supply_chain/simulation, as a state machine.                        *)
(*                                                                         *)
(* Time is in whole minutes.  The random draws of the delay model are      *)
(* inputs of the actions, taken from small sets.                           *)
(***************************************************************************)
EXTENDS Integers, Sequences, FiniteSets, TLC

VARIABLES
    event_queue,        \* engine.event_queue: heap of (time, counter, event)
    current_time,       \* engine.current_time
    event_counter,      \* engine.event_counter
    processed_events,   \* engine.processed_events (each entry keeps its heap key)
    trucks,             \* engine.trucks: truck id -> Truck
    truck_keys,         \* insertion order of the keys of engine.trucks
    orders,             \* engine.orders: order id -> Order
    pending_orders,     \* engine.pending_orders
    busy_count,         \* graph_builder.nodes[n].busy_count
    queue,              \* graph_builder.nodes[n].queue
    run_call,           \* the run(duration) call in progress, if any
    gb                  \* a GraphBuilder under construction: nodes, edges, nx graph

\* the state of the engine and of the nodes it serves
engine_vars == <<event_queue, current_time, event_counter, processed_events, trucks,
                 truck_keys, orders, pending_orders, busy_count, queue>>

vars == <<engine_vars, run_call, gb>>

(***************************************************************************)
(* The graph: a bidirectional chain A - B - C and an isolated node D.      *)
(***************************************************************************)
None == "None"

Nodes == {"A", "B", "C", "D"}

\* Node.capacity of each node, schema.py: capacity: int = 1
capacity == [n \in Nodes |-> 1]

\* graph_builder.edges: (source, target) -> base_travel_time
edges == [e \in {<<"A", "B">>, <<"B", "A">>, <<"B", "C">>, <<"C", "B">>} |-> 250]

\* a lookup that makes up an edge of the usual travel time when none exists
get_edge_or_default(source, target) ==
    [present |-> TRUE,
     base_travel_time |-> IF <<source, target>> \in DOMAIN edges
                          THEN edges[<<source, target>>] ELSE 250]

\* edges.get((source, target)): the Edge, or None (present = FALSE)
get_edge(source, target) ==
    IF <<source, target>> \in DOMAIN edges
    THEN [present |-> TRUE, base_travel_time |-> edges[<<source, target>>]]
    ELSE [present |-> FALSE, base_travel_time |-> 0]

RECURSIVE PathWeight(_)
PathWeight(p) ==
    IF Len(p) < 2 THEN 0 ELSE edges[<<p[1], p[2]>>] + PathWeight(Tail(p))

\* every sequence of distinct nodes that follows directed edges
SimplePaths ==
    {p \in UNION {[1..k -> Nodes] : k \in 1..Cardinality(Nodes)} :
        /\ \A i, j \in 1..Len(p) : i # j => p[i] # p[j]
        /\ \A i \in 1..(Len(p) - 1) : <<p[i], p[i + 1]>> \in DOMAIN edges}

ShortestPathTable ==
    [s \in Nodes, e \in Nodes |->
        LET cand == {p \in SimplePaths : p[1] = s /\ p[Len(p)] = e}
        IN  IF cand = {} THEN <<>>
            ELSE CHOOSE p \in cand : \A q \in cand : PathWeight(p) <= PathWeight(q)]

\* nx.shortest_path by weight; [] when NetworkXNoPath
get_shortest_path(start_node, end_node) == ShortestPathTable[start_node, end_node]

(***************************************************************************)
(* Delay model.                                                            *)
(***************************************************************************)
RestThreshold == 480
RestDuration == 60
MinService == 60
MaxService == 300

Max(a, b) == IF a >= b THEN a ELSE b
Min(a, b) == IF a <= b THEN a ELSE b

\* noise, in percent of the base travel time: random.uniform(0, 1), no spike
NoisePct == {0, 100}
\* outcomes of random.gammavariate(4.0, 35.0), in minutes
GammaDraws == {10, 400}

get_travel_time(base, noise) == Max(1, (base * (100 + noise)) \div 100)

get_service_time(actual) == Max(MinService, Min(actual, MaxService))

(***************************************************************************)
(* Events, trucks, orders.                                                 *)
(***************************************************************************)
NoDetails == [order_id |-> None, origin |-> None, destination |-> None, duration |-> 0]

Event(time, truck_id, node_id, event_type, details) ==
    [time |-> time, truck_id |-> truck_id, node_id |-> node_id,
     event_type |-> event_type, details |-> details]

Truck(id, node) ==
    [id |-> id, current_node_id |-> node, route |-> <<>>, current_node_index |-> 0,
     driving_time_since_rest |-> 0, is_resting |-> FALSE, status |-> "IDLE",
     previous_status |-> None, assigned_order_id |-> None,
     current_leg_start_time |-> 0, current_leg_duration |-> 0]

Order(id, origin, destination, creation_time) ==
    [id |-> id, origin_node_id |-> origin, destination_node_id |-> destination,
     creation_time |-> creation_time, status |-> "PENDING"]

\* d[k] = v on a dict modelled as a function
Put(d, k, v) == [x \in (DOMAIN d) \cup {k} |-> IF x = k THEN v ELSE d[x]]

(***************************************************************************)
(* The engine's mutable state as one record s, threaded through the        *)
(* handlers the way self is.                                               *)
(***************************************************************************)
Engine ==
    [eq |-> event_queue, ec |-> event_counter, trucks |-> trucks, keys |-> truck_keys,
     orders |-> orders, pending |-> pending_orders, busy |-> busy_count, nq |-> queue]

schedule_event(s, event) ==
    [s EXCEPT !.eq = @ \cup {[time |-> event.time, cnt |-> s.ec, event |-> event]},
              !.ec = @ + 1]

\* variant: ties on time broken by the larger counter (last in, first out)
HeapMinLifoTies(q) ==
    CHOOSE x \in q : \A y \in q :
        \/ x.time < y.time
        \/ (x.time = y.time /\ x.cnt >= y.cnt)

\* variant: a plain FIFO queue, ordered by the counter alone
HeapMinByCounter(q) == CHOOSE x \in q : \A y \in q : x.cnt <= y.cnt

\* heapq.heappop: the least (time, counter) entry
HeapMin(q) ==
    CHOOSE x \in q : \A y \in q :
        \/ x.time < y.time
        \/ (x.time = y.time /\ x.cnt <= y.cnt)

(***************************************************************************)
(* Dispatcher.                                                             *)
(***************************************************************************)
Last(seq) == seq[Len(seq)]

\* Route planning of assign_order_to_truck: truck -> origin -> destination
full_route(current_node_id, origin, destination) ==
    LET path_to_pickup ==
            IF current_node_id # origin
            THEN get_shortest_path(current_node_id, origin) ELSE <<>>
        path_to_delivery == get_shortest_path(origin, destination)
    IN  IF path_to_pickup # <<>>
        THEN IF path_to_delivery # <<>>
             THEN IF Last(path_to_pickup) = path_to_delivery[1]
                  THEN path_to_pickup \o Tail(path_to_delivery)
                  ELSE path_to_pickup \o path_to_delivery
             ELSE path_to_pickup
        ELSE path_to_delivery

assign_order_to_truck(s, now, order_id, truck_id) ==
    LET truck == s.trucks[truck_id]
        order == s.orders[order_id]
        route == full_route(truck.current_node_id, order.origin_node_id,
                            order.destination_node_id)
    IN  IF Len(route) < 2
        THEN [s EXCEPT !.orders[order_id].status = "CANCELLED"]
        ELSE LET s1 == [s EXCEPT !.trucks[truck_id].status = "EN_ROUTE_TO_PICKUP",
                                 !.trucks[truck_id].assigned_order_id = order_id,
                                 !.orders[order_id].status = "ASSIGNED"]
                 s2 == schedule_event(s1,
                          Event(now, truck_id, truck.current_node_id, "ORDER_ASSIGNED",
                                [order_id |-> order_id, origin |-> order.origin_node_id,
                                 destination |-> order.destination_node_id,
                                 duration |-> 0]))
                 s3 == [s2 EXCEPT !.trucks[truck_id].route = route,
                                  !.trucks[truck_id].current_node_index = 0]
             IN  IF Len(route) > 1
                 THEN schedule_event(s3, Event(now, truck_id, truck.current_node_id,
                                               "DEPART_NODE", NoDetails))
                 ELSE s3

\* a dispatcher that takes the idle truck spawned last
dispatcher_logic_last_idle(s, now) ==
    IF s.pending = <<>> THEN s
    ELSE LET idle_trucks == SelectSeq(s.keys, LAMBDA t : s.trucks[t].status = "IDLE")
         IN  IF idle_trucks = <<>> THEN s
             ELSE [assign_order_to_truck(s, now, s.pending[1], Last(idle_trucks))
                      EXCEPT !.pending = Tail(@)]

\* a dispatcher that leaves the dispatched order at the head of pending_orders
dispatcher_logic_no_pop(s, now) ==
    IF s.pending = <<>> THEN s
    ELSE LET idle_trucks == SelectSeq(s.keys, LAMBDA t : s.trucks[t].status = "IDLE")
         IN  IF idle_trucks = <<>> THEN s
             ELSE assign_order_to_truck(s, now, s.pending[1], idle_trucks[1])

dispatcher_logic(s, now) ==
    IF s.pending = <<>> THEN s
    ELSE LET idle_trucks == SelectSeq(s.keys, LAMBDA t : s.trucks[t].status = "IDLE")
         IN  IF idle_trucks = <<>> THEN s
             ELSE LET order_id == s.pending[1]
                      best_truck == idle_trucks[1]
                      s1 == assign_order_to_truck(s, now, order_id, best_truck)
                  IN  [s1 EXCEPT !.pending = Tail(@)]

(***************************************************************************)
(* Event handlers.  now is current_time, already set by step.              *)
(***************************************************************************)
handle_truck_spawn(s, now, event) ==
    LET truck_id == event.truck_id
        s1 == [s EXCEPT !.trucks = Put(@, truck_id, Truck(truck_id, event.node_id)),
                        !.keys = IF truck_id \in DOMAIN s.trucks
                                 THEN @ ELSE Append(@, truck_id)]
    IN  dispatcher_logic(s1, now)

handle_order_created(s, now, event) ==
    LET order_id == event.details.order_id
        order == Order(order_id, event.details.origin, event.details.destination, now)
        s1 == [s EXCEPT !.orders = Put(@, order_id, order),
                        !.pending = Append(@, order_id)]
    IN  dispatcher_logic(s1, now)

handle_arrival(s, now, event) ==
    LET node == event.node_id
        truck_id == event.truck_id
        s1 == [s EXCEPT !.trucks[truck_id].current_node_id = node,
                        !.trucks[truck_id].current_leg_duration = 0,
                        !.trucks[truck_id].current_leg_start_time = 0]
    IN  IF s.busy[node] < capacity[node]
        THEN schedule_event(s1, Event(now, truck_id, node, "START_SERVICE", NoDetails))
        ELSE [s1 EXCEPT !.nq[node] = Append(@, truck_id)]

\* a start of service that takes a slot only while one is free
handle_start_service_capped(s, now, event, actual) ==
    LET node == event.node_id
        service_time == get_service_time(actual)
        s1 == [s EXCEPT !.busy[node] = Min(@ + 1, capacity[node])]
    IN  schedule_event(s1, Event(now + service_time, event.truck_id, node, "END_SERVICE",
                                 [NoDetails EXCEPT !.duration = service_time]))

handle_start_service(s, now, event, actual) ==
    LET node == event.node_id
        service_time == get_service_time(actual)
        s1 == [s EXCEPT !.busy[node] = @ + 1]
    IN  schedule_event(s1, Event(now + service_time, event.truck_id, node, "END_SERVICE",
                                 [NoDetails EXCEPT !.duration = service_time]))

\* a promotion that leaves the promoted truck in node.queue
promote_next_no_pop(s, now, node) ==
    IF s.nq[node] # <<>>
    THEN schedule_event(s, Event(now, Head(s.nq[node]), node, "START_SERVICE", NoDetails))
    ELSE s

\* pop the head of node.queue and schedule its START_SERVICE
promote_next(s, now, node) ==
    IF s.nq[node] # <<>>
    THEN LET next_truck_id == Head(s.nq[node])
             s1 == [s EXCEPT !.nq[node] = Tail(@)]
         IN  schedule_event(s1, Event(now, next_truck_id, node, "START_SERVICE", NoDetails))
    ELSE s

\* variant: the delivery branch leaves truck.route in place
complete_delivery_keeps_route(s, truck_id) ==
    [s EXCEPT !.trucks[truck_id].status = "IDLE",
              !.trucks[truck_id].assigned_order_id = None,
              !.orders[s.trucks[truck_id].assigned_order_id].status = "COMPLETED"]

\* the delivery branch of handle_end_service: the truck becomes idle
complete_delivery(s, truck_id) ==
    [s EXCEPT !.trucks[truck_id].status = "IDLE",
              !.trucks[truck_id].assigned_order_id = None,
              !.orders[s.trucks[truck_id].assigned_order_id].status = "COMPLETED",
              !.trucks[truck_id].route = <<>>]

\* a delivery test that forgets to compare the node with the destination
delivery_reached_anywhere(truck, order, node) ==
    truck.status = "EN_ROUTE_TO_DELIVERY"

\* the elif of handle_end_service: the truck delivers at the order's destination
delivery_reached(truck, order, node) ==
    /\ truck.status = "EN_ROUTE_TO_DELIVERY"
    /\ node = order.destination_node_id

handle_end_service(s, now, event) ==
    LET node == event.node_id
        truck_id == event.truck_id
        s1 == [s EXCEPT !.busy[node] = @ - 1]
        truck == s1.trucks[truck_id]
        order == s1.orders[truck.assigned_order_id]
        at_pickup == /\ truck.assigned_order_id # None
                     /\ truck.status = "EN_ROUTE_TO_PICKUP"
                     /\ node = order.origin_node_id
        at_delivery == /\ truck.assigned_order_id # None
                       /\ ~at_pickup
                       /\ delivery_reached(truck, order, node)
    IN  IF at_delivery
        THEN promote_next(complete_delivery(s1, truck_id), now, node)
        ELSE LET s2 == IF at_pickup
                       THEN [s1 EXCEPT !.trucks[truck_id].status = "EN_ROUTE_TO_DELIVERY"]
                       ELSE s1
                 t2 == s2.trucks[truck_id]
                 s3 == IF t2.route # <<>> /\ t2.current_node_index < Len(t2.route) - 1
                       THEN schedule_event(s2, Event(now, truck_id, node, "DEPART_NODE",
                                                     NoDetails))
                       ELSE s2
             IN  promote_next(s3, now, node)

\* variant: rest only once the threshold has already been passed
rest_needed_after_threshold(driving_time_since_rest, travel_time) ==
    driving_time_since_rest > RestThreshold

\* the rest policy checked before a leg starts
rest_needed(driving_time_since_rest, travel_time) ==
    /\ driving_time_since_rest > 0
    /\ driving_time_since_rest + travel_time > RestThreshold

handle_depart(s, now, event, noise) ==
    LET truck_id == event.truck_id
        truck == s.trucks[truck_id]
        current_node_id == event.node_id
    IN  IF truck.route = <<>> THEN s
        ELSE IF ~(truck.current_node_index < Len(truck.route) - 1) THEN s
        ELSE LET next_node_id == truck.route[truck.current_node_index + 2]
                 edge == get_edge(current_node_id, next_node_id)
             IN  IF ~edge.present THEN s
                 ELSE LET travel_time == get_travel_time(edge.base_travel_time, noise)
                      IN  IF rest_needed(truck.driving_time_since_rest, travel_time)
                          THEN schedule_event(s, Event(now, truck_id, current_node_id,
                                                       "START_REST", NoDetails))
                          ELSE LET s1 == [s EXCEPT
                                        !.trucks[truck_id].current_node_index = @ + 1,
                                        !.trucks[truck_id].driving_time_since_rest =
                                            @ + travel_time,
                                        !.trucks[truck_id].current_leg_start_time = now,
                                        !.trucks[truck_id].current_leg_duration =
                                            travel_time]
                               IN  schedule_event(s1,
                                      Event(now + travel_time, truck_id, next_node_id,
                                            "ARRIVAL_NODE",
                                            [NoDetails EXCEPT !.duration = travel_time]))

handle_start_rest(s, now, event) ==
    LET truck_id == event.truck_id
        s1 == [s EXCEPT !.trucks[truck_id].previous_status = s.trucks[truck_id].status,
                        !.trucks[truck_id].is_resting = TRUE,
                        !.trucks[truck_id].status = "RESTING"]
    IN  schedule_event(s1, Event(now + RestDuration, truck_id, event.node_id, "END_REST",
                                 [NoDetails EXCEPT !.duration = RestDuration]))

\* an end of rest that leaves the driving counter as it was
handle_end_rest_keeps_counter(s, now, event) ==
    LET truck_id == event.truck_id
        s1 == [s EXCEPT !.trucks[truck_id].is_resting = FALSE,
                        !.trucks[truck_id].status = s.trucks[truck_id].previous_status,
                        !.trucks[truck_id].previous_status = None]
    IN  schedule_event(s1, Event(now, truck_id, event.node_id, "DEPART_NODE", NoDetails))

handle_end_rest(s, now, event) ==
    LET truck_id == event.truck_id
        truck == s.trucks[truck_id]
        status == IF truck.assigned_order_id # None /\ truck.previous_status # None
                  THEN IF truck.previous_status \in
                            {"EN_ROUTE_TO_PICKUP", "EN_ROUTE_TO_DELIVERY"}
                       THEN truck.previous_status
                       ELSE "EN_ROUTE_TO_DELIVERY"
                  ELSE "IDLE"
        s1 == [s EXCEPT !.trucks[truck_id].is_resting = FALSE,
                        !.trucks[truck_id].driving_time_since_rest = 0,
                        !.trucks[truck_id].status = status,
                        !.trucks[truck_id].previous_status = None]
    IN  schedule_event(s1, Event(now, truck_id, event.node_id, "DEPART_NODE", NoDetails))

\* process_event: dispatch by kind; ORDER_ASSIGNED has no handler
process_event(s, now, event, noise, actual) ==
    CASE event.event_type = "TRUCK_SPAWN" -> handle_truck_spawn(s, now, event)
      [] event.event_type = "ORDER_CREATED" -> handle_order_created(s, now, event)
      [] event.event_type = "ARRIVAL_NODE" -> handle_arrival(s, now, event)
      [] event.event_type = "START_SERVICE" -> handle_start_service(s, now, event, actual)
      [] event.event_type = "END_SERVICE" -> handle_end_service(s, now, event)
      [] event.event_type = "DEPART_NODE" -> handle_depart(s, now, event, noise)
      [] event.event_type = "START_REST" -> handle_start_rest(s, now, event)
      [] event.event_type = "END_REST" -> handle_end_rest(s, now, event)
      [] OTHER -> s

(***************************************************************************)
(* The driver's seed events and the engine's step.                         *)
(***************************************************************************)
TruckIds == <<"T1", "T2">>
OrderIds == <<"O1", "O2">>

\* nodes at which the driver spawns each truck
SpawnNodes == <<{"A", "D"}, {"C"}>>

\* (origin, destination) of the seed orders
OrderRoutes == {<<"A", "C">>, <<"B", "C">>, <<"B", "A">>, <<"B", "D">>, <<"D", "A">>}

\* creation times of the seed orders: the first at 0, later ones at 0 or later
LateOrderTime == 700
OrderTimes == <<{0}, {0, LateOrderTime}>>

Seeded(event_type, key) ==
    \E x \in event_queue :
        /\ x.event.event_type = event_type
        /\ (x.event.truck_id = key \/ x.event.details.order_id = key)

SetEngine(s) ==
    /\ event_queue' = s.eq
    /\ event_counter' = s.ec
    /\ trucks' = s.trucks
    /\ truck_keys' = s.keys
    /\ orders' = s.orders
    /\ pending_orders' = s.pending
    /\ busy_count' = s.busy
    /\ queue' = s.nq
    /\ UNCHANGED <<run_call, gb>>

\* no call of run is in progress
NotRunning == [active |-> FALSE, duration |-> 0]

\* the engine's graph is the fixed one above; no graph is being generated
NoGraph == [pc |-> "none"]

EngineInit ==
    /\ event_queue = {}
    /\ current_time = 0
    /\ event_counter = 0
    /\ processed_events = <<>>
    /\ trucks = <<>>
    /\ truck_keys = <<>>
    /\ orders = <<>>
    /\ pending_orders = <<>>
    /\ busy_count = [n \in Nodes |-> 0]
    /\ queue = [n \in Nodes |-> <<>>]
    /\ run_call = NotRunning

Init == EngineInit /\ gb = NoGraph

\* the driver schedules TRUCK_SPAWN of truck T{i+1} at time 0.0, before any order
\* and outside any call of run
SeedTruckSpawn ==
    /\ ~run_call.active
    /\ processed_events = <<>>
    /\ \E i \in 1..Len(TruckIds) : \E node \in SpawnNodes[i] :
        /\ \A j \in 1..Len(TruckIds) : Seeded("TRUCK_SPAWN", TruckIds[j]) <=> j < i
        /\ \A j \in 1..Len(OrderIds) : ~Seeded("ORDER_CREATED", OrderIds[j])
        /\ SetEngine(schedule_event(Engine,
               Event(0, TruckIds[i], node, "TRUCK_SPAWN", NoDetails)))
    /\ UNCHANGED <<current_time, processed_events>>

\* the driver schedules ORDER_CREATED of order ORD{i+1}, origin # destination
SeedOrderCreated ==
    /\ ~run_call.active
    /\ processed_events = <<>>
    /\ \E i \in 1..Len(OrderIds) : \E r \in OrderRoutes, time \in OrderTimes[i] :
        /\ \A j \in 1..Len(OrderIds) : Seeded("ORDER_CREATED", OrderIds[j]) <=> j < i
        /\ SetEngine(schedule_event(Engine,
               Event(time, "SYSTEM", r[1], "ORDER_CREATED",
                     [order_id |-> OrderIds[i], origin |-> r[1],
                      destination |-> r[2], duration |-> 0])))
    /\ UNCHANGED <<current_time, processed_events>>

\* the kind of the entry heappop returns next
NextEventIs(event_type) ==
    /\ event_queue # {}
    /\ HeapMin(event_queue).event.event_type = event_type

\* a step that reads the least entry and leaves it in the heap
step_peek(noise, actual) ==
    /\ current_time' = HeapMin(event_queue).time
    /\ UNCHANGED <<event_queue, event_counter, processed_events, trucks, truck_keys,
                   orders, pending_orders, busy_count, queue, run_call, gb>>

\* step: pop the least entry, set current_time, log it, process it
step(noise, actual) ==
    LET x == HeapMin(event_queue)
    IN  /\ current_time' = x.time
        /\ processed_events' = Append(processed_events, x)
        /\ SetEngine(process_event([Engine EXCEPT !.eq = event_queue \ {x}],
                                   x.time, x.event, noise, actual))

StepTruckSpawn == NextEventIs("TRUCK_SPAWN") /\ step(0, 0)

StepOrderCreated == NextEventIs("ORDER_CREATED") /\ step(0, 0)

StepOrderAssigned == NextEventIs("ORDER_ASSIGNED") /\ step(0, 0)

StepArrival == NextEventIs("ARRIVAL_NODE") /\ step(0, 0)

StepStartService ==
    NextEventIs("START_SERVICE") /\ \E actual \in GammaDraws : step(0, actual)

StepEndService == NextEventIs("END_SERVICE") /\ step(0, 0)

StepDepart == NextEventIs("DEPART_NODE") /\ \E noise \in NoisePct : step(noise, 0)

StepStartRest == NextEventIs("START_REST") /\ step(0, 0)

StepEndRest == NextEventIs("END_REST") /\ step(0, 0)

Next ==
    \/ SeedTruckSpawn
    \/ SeedOrderCreated
    \/ StepTruckSpawn
    \/ StepOrderCreated
    \/ StepOrderAssigned
    \/ StepArrival
    \/ StepStartService
    \/ StepEndService
    \/ StepDepart
    \/ StepStartRest
    \/ StepEndRest

Spec == Init /\ [][Next]_vars

(***************************************************************************)
(* Properties.                                                             *)
(***************************************************************************)
Log == {processed_events[i] : i \in 1..Len(processed_events)}

LogIndex == 1..Len(processed_events)

IsEvent(x, event_type, truck_id, node_id) ==
    /\ x.event.event_type = event_type
    /\ x.event.truck_id = truck_id
    /\ x.event.node_id = node_id

\* C1: at every event boundary, 0 <= busy_count <= capacity at every node.
BusyCountWithinCapacity ==
    \A n \in Nodes : 0 <= busy_count[n] /\ busy_count[n] <= capacity[n]

\* C2: happy path.  Once the event queue has drained, an order that was
\* assigned to a truck standing at the order's origin, with a path from origin
\* to destination, is completed; the truck (given no other order) is idle at
\* the destination with no assigned order, and has had an END_SERVICE at the
\* origin followed by one at the destination.
HappyPathCompletes ==
    event_queue = {} =>
        \A i \in LogIndex :
            LET x == processed_events[i]
                t == x.event.truck_id
                o == x.event.details.order_id
                origin == x.event.details.origin
                destination == x.event.details.destination
            IN  (/\ x.event.event_type = "ORDER_ASSIGNED"
                 /\ x.event.node_id = origin
                 /\ get_shortest_path(origin, destination) # <<>>
                 /\ \A j \in LogIndex :
                        (/\ processed_events[j].event.event_type = "ORDER_ASSIGNED"
                         /\ processed_events[j].event.truck_id = t) => j = i)
                => /\ orders[o].status = "COMPLETED"
                   /\ trucks[t].status = "IDLE"
                   /\ trucks[t].current_node_id = destination
                   /\ trucks[t].assigned_order_id = None
                   /\ \E j, k \in LogIndex :
                        /\ i < j /\ j < k
                        /\ IsEvent(processed_events[j], "END_SERVICE", t, origin)
                        /\ IsEvent(processed_events[k], "END_SERVICE", t, destination)

\* a step that completes an order takes the head off a non-empty pending_orders
DispatchOnCompletionStep ==
    (/\ pending_orders # <<>>
     /\ \E o \in DOMAIN orders :
            orders[o].status # "COMPLETED" /\ orders'[o].status = "COMPLETED")
    => pending_orders' = Tail(pending_orders)

\* C3: the dispatcher runs on delivery completion.  A step that completes an
\* order while pending_orders is non-empty takes the head off pending_orders.
DispatchOnCompletion == [][DispatchOnCompletionStep]_vars

\* a path leads from the truck's node to the origin and on to the destination
Routable(x) ==
    /\ \/ x.event.node_id = x.event.details.origin
       \/ get_shortest_path(x.event.node_id, x.event.details.origin) # <<>>
    /\ get_shortest_path(x.event.details.origin, x.event.details.destination) # <<>>

\* C4: no-route cancellation.  No ORDER_ASSIGNED event is ever scheduled, and
\* no order is ever bound to a truck, unless a path leads from the truck's
\* node to the origin and from the origin to the destination.
NoRouteCancels ==
    \A x \in event_queue \cup Log :
        x.event.event_type = "ORDER_ASSIGNED" =>
            /\ Routable(x)
            /\ orders[x.event.details.order_id].status # "CANCELLED"

\* C5: at every event boundary an en-route truck has a route and an order,
\* and an idle truck has neither.
TruckStatusConsistent ==
    \A t \in DOMAIN trucks :
        /\ trucks[t].status \in {"EN_ROUTE_TO_PICKUP", "EN_ROUTE_TO_DELIVERY"}
            => trucks[t].route # <<>> /\ trucks[t].assigned_order_id # None
        /\ trucks[t].status = "IDLE"
            => trucks[t].route = <<>> /\ trucks[t].assigned_order_id = None

\* a truck is idle again after its delivery while another is still en route
IdleAfterDeliveryWhileOtherEnRoute ==
    /\ \E o \in DOMAIN orders : orders[o].status = "COMPLETED"
    /\ \E t \in DOMAIN trucks : trucks[t].status = "IDLE"
    /\ \E t \in DOMAIN trucks : trucks[t].status = "EN_ROUTE_TO_DELIVERY"

\* C6: capacity queuing.  Right after the second of two ARRIVAL_NODE events
\* with the same timestamp at a capacity-1 node is handled, while the first
\* truck's START_SERVICE is granted (pending or in service), the second truck
\* is at the tail of node.queue and has no START_SERVICE scheduled.
SimultaneousArrivalQueues ==
    \A i \in LogIndex :
        LET k == Len(processed_events)
            x1 == processed_events[i]
            x2 == processed_events[k]
            n == x2.event.node_id
        IN  (/\ i < k
             /\ x1.event.event_type = "ARRIVAL_NODE"
             /\ x2.event.event_type = "ARRIVAL_NODE"
             /\ x1.event.node_id = n
             /\ x1.time = x2.time
             /\ x1.event.truck_id # x2.event.truck_id
             /\ capacity[n] = 1
             /\ \E y \in event_queue :
                    IsEvent(y, "START_SERVICE", x1.event.truck_id, n))
            => /\ queue[n] # <<>>
               /\ Last(queue[n]) = x2.event.truck_id
               /\ ~\E y \in event_queue :
                      IsEvent(y, "START_SERVICE", x2.event.truck_id, n)

\* the longest travel time a single leg can take
MaxSingleLeg ==
    LET legs == {get_travel_time(edges[e], n) : e \in DOMAIN edges, n \in NoisePct}
    IN  CHOOSE m \in legs : \A l \in legs : l <= m

DrivingTimeBounded ==
    \A t \in DOMAIN trucks :
        /\ trucks[t].driving_time_since_rest >= 0
        /\ trucks[t].driving_time_since_rest <= RestThreshold + MaxSingleLeg

\* a step that starts a leg of truck t adds the travel time to its counter
RestBeforeThresholdStep ==
    \A t \in (DOMAIN trucks) \cap (DOMAIN trucks') :
        (/\ trucks'[t].driving_time_since_rest > trucks[t].driving_time_since_rest
         /\ trucks'[t].driving_time_since_rest > RestThreshold)
        => trucks[t].driving_time_since_rest = 0

\* C7: driving_time_since_rest stays within [0, 480 + longest leg], and a leg
\* that takes it above 480 is only ever started with the counter at 0: a
\* departure with a positive counter that would pass 480 does not start.
RestEnforcedBeforeThreshold ==
    [](DrivingTimeBounded) /\ [][RestBeforeThresholdStep]_vars

\* a truck that was made to rest earlier is now above 480 on a single leg
OverThresholdAfterRest ==
    /\ \E x \in Log : x.event.event_type = "END_REST"
    /\ \E t \in DOMAIN trucks : trucks[t].driving_time_since_rest > RestThreshold

\* C8: events are processed in (time, insertion counter) order: equal
\* timestamps first in, first out; different timestamps in ascending time
\* order whatever the insertion order.
ProcessedInHeapOrder ==
    \A i \in LogIndex :
        i < Len(processed_events) =>
            \/ processed_events[i].time < processed_events[i + 1].time
            \/ /\ processed_events[i].time = processed_events[i + 1].time
               /\ processed_events[i].cnt < processed_events[i + 1].cnt

\* the log holds a tie on time, and a pair processed against insertion order
TieAndReorderProcessed ==
    /\ \E i, j \in LogIndex :
        /\ i < j
        /\ processed_events[i].time = processed_events[j].time
    /\ \E i, j \in LogIndex :
        /\ i < j
        /\ processed_events[i].time < processed_events[j].time
        /\ processed_events[i].cnt > processed_events[j].cnt

CurrentTimeMonotoneStep == current_time' >= current_time

\* C9: current_time never decreases when every seed is scheduled before the
\* first step and every later event by the handlers.
CurrentTimeMonotone == [][CurrentTimeMonotoneStep]_vars

\* time has advanced past an event that was inserted after a later-timed one
TimeAdvancedOverLaterInsert ==
    /\ current_time > 0
    /\ \E x \in Log : \E y \in event_queue : x.cnt > y.cnt /\ x.time < y.time

(***************************************************************************)
(* A driver that also schedules an event in the past between steps.        *)
(***************************************************************************)
LateOrderId == "O9"

LateOrderRoute == <<"D", "A">>

\* number of late schedule_event calls of the driver
MaxLate == 1

\* the driver adds an order created in the past once the queue has drained
ScheduleLate ==
    /\ processed_events # <<>>
    /\ event_queue = {}
    /\ current_time > 0
    /\ Cardinality({x \in event_queue \cup Log :
                        x.event.details.order_id = LateOrderId
                        /\ x.event.event_type = "ORDER_CREATED"}) < MaxLate
    /\ \E time \in {0, current_time - 1} :
        SetEngine(schedule_event(Engine,
            Event(time, "SYSTEM", LateOrderRoute[1], "ORDER_CREATED",
                  [order_id |-> LateOrderId, origin |-> LateOrderRoute[1],
                   destination |-> LateOrderRoute[2], duration |-> 0])))
    /\ UNCHANGED <<current_time, processed_events>>

NextExt == Next \/ ScheduleLate

SpecExt == Init /\ [][NextExt]_vars

\* C10: an event scheduled between steps with time < current_time is rejected
\* or clamped: the times of the processed events are still non-decreasing.
LateEventKeepsTimeMonotone ==
    \A i \in LogIndex :
        i < Len(processed_events) =>
            processed_events[i].time <= processed_events[i + 1].time

(***************************************************************************)
(* Order bookkeeping.                                                      *)
(***************************************************************************)
PendingIndex == 1..Len(pending_orders)

\* C11: every id in pending_orders is an order of status PENDING, no id is
\* there twice, and no assigned or cancelled order is in pending_orders
PendingOrdersArePending ==
    /\ \A i \in PendingIndex :
        /\ pending_orders[i] \in DOMAIN orders
        /\ orders[pending_orders[i]].status = "PENDING"
    /\ \A i, j \in PendingIndex : i # j => pending_orders[i] # pending_orders[j]
    /\ \A o \in DOMAIN orders :
        orders[o].status \in {"ASSIGNED", "CANCELLED"}
            => \A i \in PendingIndex : pending_orders[i] # o

\* an order waits in pending_orders behind one the dispatcher has taken out
PendingBehindDispatched ==
    /\ pending_orders # <<>>
    /\ \E o \in DOMAIN orders : orders[o].status \in {"ASSIGNED", "CANCELLED"}

OrderStatusMoves ==
    {<<"PENDING", "ASSIGNED">>, <<"ASSIGNED", "COMPLETED">>, <<"PENDING", "CANCELLED">>}

OrderStatusStep ==
    /\ \A o \in DOMAIN orders :
        /\ o \in DOMAIN orders'
        /\ \/ orders'[o].status = orders[o].status
           \/ <<orders[o].status, orders'[o].status>> \in OrderStatusMoves
        /\ orders[o].status \in {"COMPLETED", "CANCELLED"} => orders'[o] = orders[o]
    /\ \A o \in DOMAIN orders' :
        orders'[o].status = "CANCELLED"
            => \A i \in 1..Len(pending_orders') : pending_orders'[i] # o

\* C12: an order's status only moves PENDING -> ASSIGNED -> COMPLETED or
\* PENDING -> CANCELLED; COMPLETED and CANCELLED orders never change again
\* and a cancelled order is not put back into pending_orders
OrderLifecycle == [][OrderStatusStep]_vars

\* both terminal statuses have been reached
OneCompletedOneCancelled ==
    /\ \E o \in DOMAIN orders : orders[o].status = "COMPLETED"
    /\ \E o \in DOMAIN orders : orders[o].status = "CANCELLED"

CompletedHasEndService ==
    \A o \in DOMAIN orders :
        orders[o].status = "COMPLETED" =>
            \E i, j \in LogIndex :
                /\ i < j
                /\ processed_events[i].event.event_type = "ORDER_ASSIGNED"
                /\ processed_events[i].event.details.order_id = o
                /\ IsEvent(processed_events[j], "END_SERVICE",
                           processed_events[i].event.truck_id,
                           orders[o].destination_node_id)

CompletesAtEndServiceStep ==
    \A o \in DOMAIN orders :
        (orders[o].status # "COMPLETED" /\ orders'[o].status = "COMPLETED") =>
            \E t \in DOMAIN trucks :
                /\ trucks[t].assigned_order_id = o
                /\ IsEvent(Last(processed_events'), "END_SERVICE", t,
                           orders[o].destination_node_id)

\* C13: a COMPLETED order has, in the log, an END_SERVICE at its destination
\* by the truck it was assigned to, and an order becomes COMPLETED only in
\* the step that processes such an END_SERVICE
CompletedOnlyByEndService ==
    /\ [](CompletedHasEndService)
    /\ [][CompletesAtEndServiceStep]_vars

\* the second truck has delivered an order
SecondTruckDelivered ==
    \E o \in DOMAIN orders, i \in LogIndex :
        /\ orders[o].status = "COMPLETED"
        /\ processed_events[i].event.event_type = "ORDER_ASSIGNED"
        /\ processed_events[i].event.details.order_id = o
        /\ processed_events[i].event.truck_id = TruckIds[2]

(***************************************************************************)
(* A driver that does not keep origin and destination apart.               *)
(***************************************************************************)
DegenerateRoutes == {<<"B", "B">>}

\* the driver schedules ORDER_CREATED of an order whose origin is its destination
SeedDegenerateOrder ==
    /\ processed_events = <<>>
    /\ \E i \in 1..Len(OrderIds) : \E r \in DegenerateRoutes, time \in OrderTimes[i] :
        /\ \A j \in 1..Len(OrderIds) : Seeded("ORDER_CREATED", OrderIds[j]) <=> j < i
        /\ SetEngine(schedule_event(Engine,
               Event(time, "SYSTEM", r[1], "ORDER_CREATED",
                     [order_id |-> OrderIds[i], origin |-> r[1],
                      destination |-> r[2], duration |-> 0])))
    /\ UNCHANGED <<current_time, processed_events>>

NextDegenerate == Next \/ SeedDegenerateOrder

SpecDegenerate == Init /\ [][NextDegenerate]_vars

\* C14: an order whose origin equals its destination is rejected when it is
\* created: it is never in pending_orders, never ASSIGNED, and no truck is
\* assigned to it
DegenerateOrderRejected ==
    \A o \in DOMAIN orders :
        orders[o].origin_node_id = orders[o].destination_node_id =>
            /\ \A i \in PendingIndex : pending_orders[i] # o
            /\ orders[o].status # "ASSIGNED"
            /\ \A t \in DOMAIN trucks : trucks[t].assigned_order_id # o

(***************************************************************************)
(* run(duration): the loop around step.                                    *)
(***************************************************************************)
RunShort == 300

\* one week in minutes, the duration the command line passes
WeekMinutes == 10080

RunDurations == {RunShort, WeekMinutes}

\* a loop that goes on while events are left, whatever the clock says
run_continues_until_empty == event_queue # {}

\* the loop condition of run
run_continues == event_queue # {} /\ current_time < run_call.duration

\* the driver calls run(duration)
RunCall ==
    /\ ~run_call.active
    /\ \E duration \in RunDurations :
        run_call' = [active |-> TRUE, duration |-> duration]
    /\ UNCHANGED <<engine_vars, gb>>

\* one iteration of the loop: self.step()
RunIterate ==
    /\ run_call.active
    /\ run_continues
    /\ \E noise \in NoisePct, actual \in GammaDraws : step(noise, actual)

\* a run that moves the clock to the end of its window when it returns
RunReturnAdvancesClock ==
    /\ run_call.active
    /\ ~run_continues
    /\ run_call' = NotRunning
    /\ current_time' = Max(current_time, run_call.duration)
    /\ UNCHANGED <<event_queue, event_counter, processed_events, trucks, truck_keys,
                   orders, pending_orders, busy_count, queue, gb>>

\* the loop condition fails and run returns
RunReturn ==
    /\ run_call.active
    /\ ~run_continues
    /\ run_call' = NotRunning
    /\ UNCHANGED <<engine_vars, gb>>

NextRun ==
    \/ SeedTruckSpawn
    \/ SeedOrderCreated
    \/ RunCall
    \/ RunIterate
    \/ RunReturn

SpecRun == Init /\ [][NextRun]_vars

\* the steps a driver takes by calling step itself
StepCall ==
    \/ StepTruckSpawn
    \/ StepOrderCreated
    \/ StepOrderAssigned
    \/ StepArrival
    \/ StepStartService
    \/ StepEndService
    \/ StepDepart
    \/ StepStartRest
    \/ StepEndRest

\* C15: a call of run changes the engine state only by steps that a direct
\* call of step takes from the same state with the same draws: the K events
\* run processes leave the state that K calls of step leave, and entering
\* and leaving run change nothing
RunIsRepeatedStep == [][StepCall \/ SeedTruckSpawn \/ SeedOrderCreated]_engine_vars

\* run has returned with events left in the queue after processing some
RunStoppedByDuration ==
    /\ ~run_call.active
    /\ event_queue # {}
    /\ current_time >= RunShort
    /\ Len(processed_events) > 2

(***************************************************************************)
(* GraphBuilder.create_random_graph and create_from_tsplib.  Nodes are     *)
(* numbered 1..N in creation order (ids N1, N2, ...) and lie on one        *)
(* meridian: node i has latitude gb.lat[i], in whole degrees.  gb.edges is *)
(* self.edges and gb.weight the weight attribute of the nx graph's edges.  *)
(***************************************************************************)
MaxNodes == 4
MaxLat == 3
MaxK == 2

\* R * pi / 180, rounded so that travel times are whole minutes
KmPerDegree == 110

RandomSpeed == 60
TsplibSpeed == 50

Abs(a) == IF a < 0 THEN -a ELSE a

\* haversine_distance of two points of equal longitude: R * |dphi|
haversine_distance(lat1, lat2) == KmPerDegree * Abs(lat2 - lat1)

\* the TSPLIB points, which normalize_coordinates maps linearly to the latitudes
euclidean_distance(n1, n2) == Abs(n1 - n2)

\* the dataclass Edge, its fields in declaration order
Edge(source, target, base_travel_time, distance_km) ==
    [source |-> source, target |-> target,
     base_travel_time |-> base_travel_time, distance_km |-> distance_km]

\* an add_edge that gives the nx edge the distance as its weight
add_edge_weight_km(g, edge) ==
    [g EXCEPT !.edges = Put(@, <<edge.source, edge.target>>, edge),
              !.weight = Put(@, <<edge.source, edge.target>>, edge.distance_km)]

add_edge(g, edge) ==
    [g EXCEPT !.edges = Put(@, <<edge.source, edge.target>>, edge),
              !.weight = Put(@, <<edge.source, edge.target>>, edge.base_travel_time)]

\* minutes to cover dist km at the generator's speed
base_time(mode, dist) ==
    IF mode = "random" THEN (dist * 60) \div RandomSpeed
    ELSE (dist * 60) \div TsplibSpeed

GbNodes(g) == 1..Len(g.lat)

\* the key the candidate neighbours are sorted by
selection_distance(g, u, v) ==
    IF g.mode = "random" THEN haversine_distance(g.lat[u], g.lat[v])
    ELSE euclidean_distance(g.lat[u], g.lat[v])

\* position of v in the stable sort of the other nodes by distance from u
sort_rank(g, u, v) ==
    Cardinality({w \in GbNodes(g) \ {u} :
        \/ selection_distance(g, u, w) < selection_distance(g, u, v)
        \/ selection_distance(g, u, w) = selection_distance(g, u, v) /\ w < v})

\* distances[:k_neighbors]
nearest(g, u) ==
    [r \in 1..Min(g.k, Len(g.lat) - 1) |->
        CHOOSE v \in GbNodes(g) \ {u} : sort_rank(g, u, v) = r - 1]

RECURSIVE connect_nearest_one_way(_, _, _)
\* a neighbour loop that adds only the edge u -> v
connect_nearest_one_way(g, u, near) ==
    IF near = <<>> THEN g
    ELSE LET v == Head(near)
             dist == haversine_distance(g.lat[u], g.lat[v])
         IN  connect_nearest_one_way(
                 add_edge(g, Edge(u, v, base_time(g.mode, dist), dist)), u, Tail(near))

RECURSIVE connect_nearest(_, _, _)
\* the loop over nearest: edge u -> v and, if absent, v -> u
connect_nearest(g, u, near) ==
    IF near = <<>> THEN g
    ELSE LET v == Head(near)
             dist == haversine_distance(g.lat[u], g.lat[v])
             edge_uv == Edge(u, v, base_time(g.mode, dist), dist)
             edge_vu == Edge(v, u, base_time(g.mode, dist), dist)
             g1 == IF g.mode = "random" \/ <<u, v>> \notin DOMAIN g.edges
                   THEN add_edge(g, edge_uv) ELSE g
             g2 == IF <<v, u>> \notin DOMAIN g1.edges
                   THEN add_edge(g1, edge_vu) ELSE g1
         IN  connect_nearest(g2, u, Tail(near))

\* S and the nodes joined to S by an edge of the nx graph in either direction
Neighbourhood(g, S) ==
    S \cup {v \in GbNodes(g) : \E u \in S :
                <<u, v>> \in DOMAIN g.weight \/ <<v, u>> \in DOMAIN g.weight}

RECURSIVE Component(_, _)
Component(g, S) ==
    IF Neighbourhood(g, S) = S THEN S ELSE Component(g, Neighbourhood(g, S))

\* nx.is_connected(self.graph.to_undirected())
is_connected(g) == Component(g, {1}) = GbNodes(g)

LeastOf(S) == CHOOSE n \in S : \A m \in S : n <= m

RECURSIVE connected_components(_, _)
\* list(nx.connected_components(undirected)): in the order of the nodes
connected_components(g, unseen) ==
    IF unseen = {} THEN <<>>
    ELSE LET c == Component(g, {LeastOf(unseen)})
         IN  <<c>> \o connected_components(g, unseen \ c)

\* the pairs the search for best_pair can end with
closest_pairs(g, comp_a, comp_b) ==
    {p \in comp_a \X comp_b : \A q \in comp_a \X comp_b :
        haversine_distance(g.lat[p[1]], g.lat[p[2]])
            <= haversine_distance(g.lat[q[1]], g.lat[q[2]])}

\* the two add_edge calls for best_pair, the Edge fields given by position
join_components(g, u, v) ==
    LET min_dist == haversine_distance(g.lat[u], g.lat[v])
        time == base_time(g.mode, min_dist)
    IN  add_edge(add_edge(g, Edge(u, v, min_dist, time)), Edge(v, u, min_dist, time))

GraphModes == {"random", "tsplib"}

NewGraph(mode, k, lat) ==
    [pc |-> "knn", mode |-> mode, k |-> k, lat |-> lat, edges |-> <<>>,
     weight |-> <<>>, i |-> 1, components |-> <<>>, j |-> 1]

\* the generator has created its N >= 1 nodes and is about to create edges
InitGraph ==
    /\ EngineInit
    /\ \E mode \in GraphModes, k \in 0..MaxK, n \in 1..MaxNodes :
        \E lat \in [1..n -> 0..MaxLat] : gb = NewGraph(mode, k, lat)

\* one round of the k-nearest-neighbours loop
KnnIterate ==
    /\ gb.pc = "knn"
    /\ gb.i <= Len(gb.lat)
    /\ gb' = [connect_nearest(gb, gb.i, nearest(gb, gb.i)) EXCEPT !.i = @ + 1]
    /\ UNCHANGED <<engine_vars, run_call>>

\* a connectivity check that takes every graph for connected
EnsureConnectivitySkipped ==
    /\ gb.pc = "knn"
    /\ gb.i > Len(gb.lat)
    /\ gb' = [gb EXCEPT !.pc = "done"]
    /\ UNCHANGED <<engine_vars, run_call>>

\* the connectivity check after the loop, and the list of components
EnsureConnectivity ==
    /\ gb.pc = "knn"
    /\ gb.i > Len(gb.lat)
    /\ gb' = IF is_connected(gb) THEN [gb EXCEPT !.pc = "done"]
             ELSE [gb EXCEPT !.pc = "repair", !.j = 1,
                             !.components = connected_components(gb, GbNodes(gb))]
    /\ UNCHANGED <<engine_vars, run_call>>

\* one round of the repair loop: component j is joined to component j + 1
ConnectComponents ==
    /\ gb.pc = "repair"
    /\ \E p \in closest_pairs(gb, gb.components[gb.j], gb.components[gb.j + 1]) :
        gb' = [join_components(gb, p[1], p[2]) EXCEPT
                  !.j = @ + 1,
                  !.pc = IF gb.j + 1 < Len(gb.components) THEN "repair" ELSE "done"]
    /\ UNCHANGED <<engine_vars, run_call>>

NextGraph ==
    \/ KnnIterate
    \/ EnsureConnectivity
    \/ ConnectComponents

SpecGraph == InitGraph /\ [][NextGraph]_vars

\* C17: when create_random_graph or create_from_tsplib returns, for any
\* N >= 1 and k >= 0, every two nodes are joined by a path of the
\* undirected projection of the edges
BuiltGraphConnected ==
    gb.pc = "done" =>
        \A n \in GbNodes(gb) : Component([gb EXCEPT !.weight = gb.edges], {n}) = GbNodes(gb)

\* the k-nearest-neighbour edges (k >= 1) left two components and the
\* repair has joined them
TwoClustersJoined ==
    /\ gb.pc = "done"
    /\ gb.k >= 1
    /\ Len(gb.components) = 2

\* C18: when a generator returns, every edge (u, v) has a reverse edge
\* (v, u) of the same distance_km, base_travel_time and nx weight
BuiltEdgesSymmetric ==
    gb.pc = "done" =>
        \A e \in DOMAIN gb.edges :
            /\ <<e[2], e[1]>> \in DOMAIN gb.edges
            /\ gb.edges[<<e[2], e[1]>>].distance_km = gb.edges[e].distance_km
            /\ gb.edges[<<e[2], e[1]>>].base_travel_time = gb.edges[e].base_travel_time
            /\ e \in DOMAIN gb.weight
            /\ <<e[2], e[1]>> \in DOMAIN gb.weight
            /\ gb.weight[<<e[2], e[1]>>] = gb.weight[e]

\* some node u has v among its nearest while v does not have u
OneSidedNeighbourBuilt ==
    /\ gb.pc = "done"
    /\ \E u, v \in GbNodes(gb) :
        /\ u # v
        /\ \E r \in DOMAIN nearest(gb, u) : nearest(gb, u)[r] = v
        /\ \A r \in DOMAIN nearest(gb, v) : nearest(gb, v)[r] # u

(***************************************************************************)
(* GraphBuilder.get_shortest_path on a graph a caller builds edge by edge. *)
(***************************************************************************)
MaxEdges == 4

\* three nodes added by add_node; their coordinates play no part here
ManualLat == <<0, 0, 0>>

EdgeTimes == {1, 3}
EdgeKms == {1, 5}

\* the sequences of distinct nodes that follow the directed edges in E
DirectedPaths(g, E) ==
    {p \in UNION {[1..n -> GbNodes(g)] : n \in 1..Len(g.lat)} :
        /\ \A a, b \in 1..Len(p) : a # b => p[a] # p[b]
        /\ \A a \in 1..(Len(p) - 1) : <<p[a], p[a + 1]>> \in E}

RECURSIVE TotalWeight(_, _)
TotalWeight(w, p) ==
    IF Len(p) < 2 THEN 0 ELSE w[<<p[1], p[2]>>] + TotalWeight(w, Tail(p))

\* nx.shortest_path(self.graph, start_node, end_node, weight="weight");
\* found is FALSE where the library raises NetworkXNoPath
nx_shortest_path(g, start_node, end_node) ==
    LET cand == {p \in DirectedPaths(g, DOMAIN g.weight) :
                    p[1] = start_node /\ p[Len(p)] = end_node}
    IN  IF cand = {} THEN [found |-> FALSE, path |-> <<>>]
        ELSE [found |-> TRUE,
              path |-> CHOOSE p \in cand : \A q \in cand :
                          TotalWeight(g.weight, p) <= TotalWeight(g.weight, q)]

\* get_shortest_path of a GraphBuilder g
shortest_path_in(g, start_node, end_node) ==
    LET found == nx_shortest_path(g, start_node, end_node)
    IN  IF found.found THEN found.path ELSE <<>>

\* a GraphBuilder with its nodes added and no edge yet
InitManual ==
    /\ EngineInit
    /\ gb = [pc |-> "manual", lat |-> ManualLat,
             edges |-> <<>>, weight |-> <<>>, query |-> <<>>, path |-> <<>>]

\* the caller adds or replaces an edge
AddEdge ==
    /\ gb.pc = "manual"
    /\ \E source, target \in GbNodes(gb), time \in EdgeTimes, km \in EdgeKms :
        /\ source # target
        /\ <<source, target>> \in DOMAIN gb.edges \/ Cardinality(DOMAIN gb.edges) < MaxEdges
        /\ gb' = add_edge(gb, Edge(source, target, time, km))
    /\ UNCHANGED <<engine_vars, run_call>>

\* the caller asks for a shortest path
QueryPath ==
    /\ gb.pc = "manual"
    /\ \E start_node, end_node \in GbNodes(gb) :
        gb' = [gb EXCEPT !.pc = "queried",
                         !.query = <<start_node, end_node>>,
                         !.path = shortest_path_in(gb, start_node, end_node)]
    /\ UNCHANGED <<engine_vars, run_call>>

NextManual == AddEdge \/ QueryPath

SpecManual == InitManual /\ [][NextManual]_vars

EdgeTime(g) == [e \in DOMAIN g.edges |-> g.edges[e].base_travel_time]

\* C19: get_shortest_path(start, end) returns a path over directed edges
\* from start to end whose total base_travel_time is least among all such
\* paths; it returns [] exactly when there is no directed path, and [start]
\* when start = end
ShortestPathIsMinimal ==
    gb.pc = "queried" =>
        LET start_node == gb.query[1]
            end_node == gb.query[2]
            paths == {p \in DirectedPaths(gb, DOMAIN gb.edges) :
                         p[1] = start_node /\ p[Len(p)] = end_node}
        IN  /\ gb.path = <<>> <=> paths = {}
            /\ start_node = end_node => gb.path = <<start_node>>
            /\ gb.path # <<>> =>
                /\ gb.path \in paths
                /\ \A q \in paths :
                    TotalWeight(EdgeTime(gb), gb.path) <= TotalWeight(EdgeTime(gb), q)

\* a two-leg path was returned although a direct edge exists
DetourBeatsDirectEdge ==
    /\ gb.pc = "queried"
    /\ Len(gb.path) = 3
    /\ <<gb.query[1], gb.query[2]>> \in DOMAIN gb.edges

(***************************************************************************)
(* Routes of the engine's dispatcher.                                      *)
(***************************************************************************)
\* C20: when an order has just been assigned (its ORDER_ASSIGNED event is
\* still queued), the truck's route starts at the truck's node, reaches the
\* origin and then the destination, ends at the destination, and follows
\* edges of the graph
AssignedRouteWellFormed ==
    \A x \in event_queue :
        x.event.event_type = "ORDER_ASSIGNED" =>
            LET route == trucks[x.event.truck_id].route
                order == orders[x.event.details.order_id]
            IN  /\ route # <<>>
                /\ route[1] = x.event.node_id
                /\ Last(route) = order.destination_node_id
                /\ \E a, b \in 1..Len(route) :
                    /\ a < b
                    /\ route[a] = order.origin_node_id
                    /\ route[b] = order.destination_node_id
                /\ \A a \in 1..(Len(route) - 1) :
                    <<route[a], route[a + 1]>> \in DOMAIN edges

(***************************************************************************)
(* The rest cycle.                                                         *)
(***************************************************************************)
\* the entries the step has pushed
Scheduled == event_queue' \ event_queue

EnRoute == {"EN_ROUTE_TO_PICKUP", "EN_ROUTE_TO_DELIVERY"}

\* the kind of the last event processed before this step for truck k, if any
LastKindOf(k) ==
    LET mine == {i \in LogIndex : processed_events[i].event.truck_id = k}
    IN  IF mine = {} THEN None
        ELSE processed_events[CHOOSE i \in mine : \A j \in mine : j <= i].event.event_type

RestCycleStep ==
    processed_events' # processed_events =>
        LET x == Last(processed_events')
            k == x.event.truck_id
            kind == x.event.event_type
        IN  /\ (kind = "DEPART_NODE"
                 /\ \E y \in Scheduled : y.event.event_type = "START_REST") =>
                    /\ trucks'[k] = trucks[k]
                    /\ trucks[k].driving_time_since_rest > 0
                    /\ \A y \in Scheduled :
                        IsEvent(y, "START_REST", k, x.event.node_id) /\ y.time = x.time
            /\ (kind = "DEPART_NODE"
                 /\ trucks'[k].current_node_index # trucks[k].current_node_index) =>
                    \A y \in Scheduled :
                        /\ y.event.event_type = "ARRIVAL_NODE"
                        /\ ~(/\ trucks[k].driving_time_since_rest > 0
                             /\ trucks[k].driving_time_since_rest + (y.time - x.time)
                                    > RestThreshold)
            /\ kind = "START_REST" =>
                    /\ trucks'[k].is_resting
                    /\ trucks'[k].status = "RESTING"
                    /\ Cardinality(Scheduled) = 1
                    /\ \A y \in Scheduled :
                        IsEvent(y, "END_REST", k, x.event.node_id)
                        /\ y.time = x.time + RestDuration
            /\ kind = "END_REST" =>
                    /\ ~trucks'[k].is_resting
                    /\ trucks'[k].driving_time_since_rest = 0
                    /\ trucks[k].previous_status \in EnRoute
                    /\ trucks'[k].status = trucks[k].previous_status
                    /\ Cardinality(Scheduled) = 1
                    /\ \A y \in Scheduled :
                        IsEvent(y, "DEPART_NODE", k, x.event.node_id) /\ y.time = x.time
            /\ (kind = "DEPART_NODE" /\ LastKindOf(k) = "END_REST") =>
                    /\ trucks'[k].current_node_index = trucks[k].current_node_index + 1
                    /\ Cardinality(Scheduled) = 1
                    /\ \A y \in Scheduled : y.event.event_type = "ARRIVAL_NODE"

\* a truck is resting exactly while its END_REST is waiting
RestingUntilEndRest ==
    \A k \in DOMAIN trucks :
        trucks[k].is_resting <=>
            \E y \in event_queue :
                y.event.event_type = "END_REST" /\ y.event.truck_id = k

\* C21: a departure that would pass 480 minutes with a positive counter
\* leaves the truck where it is and schedules START_REST at the same time;
\* the truck rests until its END_REST exactly 60 minutes later, which zeroes
\* the counter, restores the en-route status and schedules a DEPART_NODE at
\* that time, and that departure starts the leg without another rest
RestCycle == [](RestingUntilEndRest) /\ [][RestCycleStep]_vars

\* a truck has rested, departed and arrived at the next node
ArrivedAfterRest ==
    \E i, j \in LogIndex :
        /\ i < j
        /\ processed_events[i].event.event_type = "END_REST"
        /\ processed_events[j].event.event_type = "ARRIVAL_NODE"
        /\ processed_events[j].event.truck_id = processed_events[i].event.truck_id

(***************************************************************************)
(* The dispatcher's choice of order and truck.                             *)
(***************************************************************************)
\* the step processes an event whose handler calls dispatcher_logic
DispatcherInvoked ==
    /\ processed_events' # processed_events
    /\ Last(processed_events').event.event_type \in {"TRUCK_SPAWN", "ORDER_CREATED"}

\* pending_orders as the dispatcher finds it
PendingAtDispatch ==
    LET event == Last(processed_events').event
    IN  IF event.event_type = "ORDER_CREATED"
        THEN Append(pending_orders, event.details.order_id)
        ELSE pending_orders

\* the idle trucks as the dispatcher finds them, in the order of self.trucks
IdleAtDispatch ==
    LET event == Last(processed_events').event
        spawned(k) == event.event_type = "TRUCK_SPAWN" /\ k = event.truck_id
    IN  SelectSeq(truck_keys', LAMBDA k :
            \/ spawned(k)
            \/ k \in DOMAIN trucks /\ trucks[k].status = "IDLE")

\* every truck except k is as the dispatcher found it
OtherTrucksUntouched(k) ==
    \A m \in DOMAIN trucks' :
        m # k => IF m \in DOMAIN trucks THEN trucks'[m] = trucks[m]
                 ELSE trucks'[m].status = "IDLE"

HeadBound ==
    /\ orders'[PendingAtDispatch[1]].status = "ASSIGNED"
    /\ trucks'[IdleAtDispatch[1]].assigned_order_id = PendingAtDispatch[1]
    /\ trucks'[IdleAtDispatch[1]].status = "EN_ROUTE_TO_PICKUP"
    /\ OtherTrucksUntouched(IdleAtDispatch[1])

HeadCancelled ==
    /\ orders'[PendingAtDispatch[1]].status = "CANCELLED"
    /\ OtherTrucksUntouched(None)

NextHopMissing(k, node) ==
    /\ trucks[k].route # <<>>
    /\ trucks[k].current_node_index < Len(trucks[k].route) - 1
    /\ <<node, trucks[k].route[trucks[k].current_node_index + 2]>> \notin DOMAIN edges

DepartOverMissingEdgeStep ==
    processed_events' # processed_events =>
        LET x == Last(processed_events')
        IN  (x.event.event_type = "DEPART_NODE"
             /\ NextHopMissing(x.event.truck_id, x.event.node_id)) =>
                /\ trucks' = trucks
                /\ orders' = orders
                /\ pending_orders' = pending_orders
                /\ busy_count' = busy_count
                /\ queue' = queue
                /\ event_queue' = event_queue \ {x}
                /\ event_counter' = event_counter

\* C23: handling DEPART_NODE for a truck whose next hop has no edge changes
\* no truck, order or node and schedules nothing: only the event itself
\* leaves the queue
DepartOverMissingEdgeIsNoOp == [][DepartOverMissingEdgeStep]_vars

\* a truck has stalled at a node without an edge to its next hop and an
\* event of another truck was processed afterwards
StalledWhileOthersMove ==
    \E i, j \in LogIndex :
        /\ i < j
        /\ processed_events[i].event.event_type = "DEPART_NODE"
        /\ NextHopMissing(processed_events[i].event.truck_id,
                          processed_events[i].event.node_id)
        /\ trucks[processed_events[i].event.truck_id].current_node_index = 0
        /\ processed_events[j].event.event_type = "ARRIVAL_NODE"
        /\ processed_events[j].event.truck_id # processed_events[i].event.truck_id

(***************************************************************************)
(* The values the generators give their edges.                             *)
(***************************************************************************)
\* C24: every edge of a built graph, repair edges included, has distance_km
\* equal to the haversine distance of its endpoints and base_travel_time
\* equal to the time that distance takes at the generator's speed (50 km/h
\* for TSPLIB graphs; 60 km/h, so the same number, for random graphs)
BuiltEdgesMeasured ==
    gb.pc = "done" =>
        \A e \in DOMAIN gb.edges :
            /\ gb.edges[e].distance_km = haversine_distance(gb.lat[e[1]], gb.lat[e[2]])
            /\ gb.edges[e].base_travel_time = base_time(gb.mode, gb.edges[e].distance_km)

(***************************************************************************)
(* parse_tsplib, the first step of create_from_tsplib.  A file is a        *)
(* sequence of stripped lines, each of one of the kinds below; a COORD     *)
(* line is a well-formed "id x y" and is identified by its line number.    *)
(* MALFORMED stands for a line with fewer than three fields or with a      *)
(* field that is no number.                                                *)
(***************************************************************************)
MaxLines == 4

LineKinds == {"NAME", "NODE_COORD_SECTION", "EOF", "COORD", "MALFORMED", "BLANK"}

NewParse(lines) ==
    [pc |-> "parse", lines |-> lines, pos |-> 1, in_coord_section |-> FALSE,
     nodes |-> <<>>, name |-> "unknown"]

\* the body of the loop over the lines of the file
parse_line(g, line, number) ==
    IF line = "BLANK" \/ line = "EOF" THEN g
    ELSE IF line = "NAME" THEN [g EXCEPT !.name = "named"]
    ELSE IF line = "NODE_COORD_SECTION" THEN [g EXCEPT !.in_coord_section = TRUE]
    ELSE IF g.in_coord_section /\ line = "COORD"
         THEN [g EXCEPT !.nodes = Append(@, number)]
    ELSE g

InitParse ==
    /\ EngineInit
    /\ \E n \in 0..MaxLines : \E lines \in [1..n -> LineKinds] : gb = NewParse(lines)

\* parse_tsplib reads the next line
ParseLine ==
    /\ gb.pc = "parse"
    /\ gb.pos <= Len(gb.lines)
    /\ gb' = [parse_line(gb, gb.lines[gb.pos], gb.pos) EXCEPT !.pos = @ + 1]
    /\ UNCHANGED <<engine_vars, run_call>>

\* the file is exhausted: parse_tsplib returns name and nodes
ParseReturn ==
    /\ gb.pc = "parse"
    /\ gb.pos > Len(gb.lines)
    /\ gb' = [gb EXCEPT !.pc = "parsed"]
    /\ UNCHANGED <<engine_vars, run_call>>

NextParse == ParseLine \/ ParseReturn

SpecParse == InitParse /\ [][NextParse]_vars

\* C25: the returned nodes are well-formed lines that come after a
\* NODE_COORD_SECTION line and before every EOF line
ParsedOnlyInsideSection ==
    gb.pc = "parsed" =>
        \A a \in 1..Len(gb.nodes) :
            LET number == gb.nodes[a]
            IN  /\ gb.lines[number] = "COORD"
                /\ \E s \in 1..(number - 1) : gb.lines[s] = "NODE_COORD_SECTION"
                /\ \A e \in 1..(number - 1) : gb.lines[e] # "EOF"

(***************************************************************************)
(* What is outstanding for a truck and for a node.                         *)
(***************************************************************************)
TruckActivityKinds ==
    {"ARRIVAL_NODE", "START_SERVICE", "END_SERVICE", "DEPART_NODE", "START_REST",
     "END_REST"}

\* the queued events of truck k that move it on
WaitingEvents(k) ==
    {x \in event_queue :
        x.event.truck_id = k /\ x.event.event_type \in TruckActivityKinds}

\* the places truck k takes in node queues
QueuePlaces(k) ==
    {p \in Nodes \X (1..Len(truck_keys)) :
        p[2] <= Len(queue[p[1]]) /\ queue[p[1]][p[2]] = k}

\* C26: for each truck, its ARRIVAL_NODE, START_SERVICE, END_SERVICE,
\* DEPART_NODE, START_REST and END_REST events in the event queue and its
\* places in node queues number at most one in all
OneActivityPerTruck ==
    /\ \A n \in Nodes : Len(queue[n]) <= Len(truck_keys)
    /\ \A k \in DOMAIN trucks :
        Cardinality(WaitingEvents(k)) + Cardinality(QueuePlaces(k)) <= 1

\* a truck waits in a node queue while another is in service there
QueuedBehindService ==
    \E n \in Nodes :
        /\ queue[n] # <<>>
        /\ \E x \in event_queue :
            /\ x.event.event_type = "END_SERVICE"
            /\ x.event.node_id = n
            /\ x.event.truck_id # queue[n][1]

\* the END_SERVICE events waiting for node n
ServicesRunning(n) ==
    {x \in event_queue : x.event.event_type = "END_SERVICE" /\ x.event.node_id = n}

\* C27: each node's busy_count is the number of END_SERVICE events for that
\* node waiting in the event queue
BusyCountIsRunningServices ==
    \A n \in Nodes : busy_count[n] = Cardinality(ServicesRunning(n))

\* two services run at one node at once
TwoServicesRunning == \E n \in Nodes : Cardinality(ServicesRunning(n)) = 2

(***************************************************************************)
(* Four trucks meeting at one node.                                        *)
(***************************************************************************)
\* the later order is created one longest service after the first ones
CrowdLateTime == MaxService

OrderCreatedEvent(time, order_id, origin, destination) ==
    Event(time, "SYSTEM", origin, "ORDER_CREATED",
          [order_id |-> order_id, origin |-> origin, destination |-> destination,
           duration |-> 0])

\* the driver's seed events in the order it schedules them: four trucks at
\* B, three orders from B to C at time 0 and a later order from C to B
CrowdSeeds ==
    << Event(0, "T1", "B", "TRUCK_SPAWN", NoDetails),
       Event(0, "T2", "B", "TRUCK_SPAWN", NoDetails),
       Event(0, "T3", "B", "TRUCK_SPAWN", NoDetails),
       Event(0, "T4", "B", "TRUCK_SPAWN", NoDetails),
       OrderCreatedEvent(0, "O1", "B", "C"),
       OrderCreatedEvent(0, "O2", "B", "C"),
       OrderCreatedEvent(0, "O3", "B", "C"),
       OrderCreatedEvent(CrowdLateTime, "O4", "C", "B") >>

\* the driver schedules its next seed event
SeedCrowd ==
    /\ ~run_call.active
    /\ processed_events = <<>>
    /\ event_counter < Len(CrowdSeeds)
    /\ SetEngine(schedule_event(Engine, CrowdSeeds[event_counter + 1]))
    /\ UNCHANGED <<current_time, processed_events>>

NextCrowd == SeedCrowd \/ StepCall

SpecCrowd == Init /\ [][NextCrowd]_vars

\* the place in the log of the latest arrival of truck k at node n
ArrivalIndex(k, n) ==
    LET mine == {i \in LogIndex : IsEvent(processed_events[i], "ARRIVAL_NODE", k, n)}
    IN  IF mine = {} THEN 0 ELSE CHOOSE i \in mine : \A j \in mine : j <= i

\* C28: when a truck starts service at a node, every truck waiting in the
\* node's queue arrived there after it: nobody starts service ahead of a
\* truck that was queued before it arrived
QueueServedInArrivalOrder ==
    processed_events # <<>> =>
        LET x == Last(processed_events).event
        IN  x.event_type = "START_SERVICE" =>
                \A p \in 1..Len(queue[x.node_id]) :
                    ArrivalIndex(queue[x.node_id][p], x.node_id)
                        > ArrivalIndex(x.truck_id, x.node_id)

\* a step taken inside a call of run that pops one event and moves the clock
\* to its time
RunPopsOne ==
    /\ event_queue # {}
    /\ Len(processed_events') = Len(processed_events) + 1
    /\ Last(processed_events') = HeapMin(event_queue)
    /\ current_time' = Last(processed_events').time

\* C30: inside a call of run(duration) an event is popped only while
\* current_time < duration, so an event with time >= duration that the call
\* processes is the last one it pops; while current_time >= duration the call
\* processes nothing and leaves the whole engine state unchanged
RunStopsAtDuration ==
    [][run_call.active =>
          IF current_time < run_call.duration
          THEN UNCHANGED engine_vars \/ RunPopsOne
          ELSE UNCHANGED engine_vars]_vars

\* run(RunShort) has just popped an event at or past its duration, after one
\* before it, and events are left in the queue
RunOvershotByLastPop ==
    /\ run_call.active
    /\ run_call.duration = RunShort
    /\ current_time >= RunShort
    /\ event_queue # {}
    /\ Len(processed_events) >= 2
    /\ Last(processed_events).time = current_time
    /\ processed_events[Len(processed_events) - 1].time < RunShort

(***************************************************************************)
(* Termination.  The loop of run takes its next iteration, or returns,     *)
(* whenever it can: the code is sequential and nothing else runs.          *)
(***************************************************************************)
NextCrowdRun == SeedCrowd \/ RunCall \/ RunIterate \/ RunReturn

SpecCrowdRun ==
    Init /\ [][NextCrowdRun]_vars /\ WF_vars(RunIterate) /\ WF_vars(RunReturn)

\* C29: every call of run returns, and a call whose duration no event time
\* reaches returns with the event queue empty: repeated step drains the
\* queue, whatever the draws
RunTerminates ==
    /\ run_call.active ~> ~run_call.active
    /\ (run_call.active /\ run_call.duration = WeekMinutes)
           ~> (~run_call.active /\ event_queue = {})

\* the queue has drained after a run that went through a rest and a delivery
DrainedAfterRestAndDelivery ==
    /\ event_queue = {}
    /\ ~run_call.active
    /\ \E i \in LogIndex : processed_events[i].event.event_type = "END_REST"
    /\ \E o \in DOMAIN orders : orders[o].status = "COMPLETED"

====
